---- MODULE Spec2Model ----
(***************************************************************************)
(* Model of the rusty_coin_dns node registry (src/src/main.rs): the global *)
(* NODES vector behind a Mutex and the three handlers register, deregister *)
(* and query that act on it, run by concurrent request tasks.              *)
(***************************************************************************)
EXTENDS Integers, Sequences, FiniteSets, TLC

VARIABLES
    NODES,      \* the Vec<Node> inside the Mutex (main.rs:107)
    locked,     \* TRUE while some MutexGuard of NODES is alive
    pc,         \* per request task: where its handler stands
    info,       \* per request task: the web::Json<Node> body of its request
    idx,        \* per request task: position of retain's scan in NODES
    resp,       \* per request task: the HttpResponse its last handler returned
    request,    \* per request task: the HTTP request it last received (path and JSON body)
    serial,     \* history: NODES of the serial execution ordered by lock acquisition
    regCount    \* history: per key, Registers completed since the last completed Deregister

vars == <<NODES, locked, pc, info, idx, resp, request, serial, regCount>>

----------------------------------------------------------------------------
(* Bounds of the model *)

NumTasks == 2          \* concurrent request tasks of the server
NumStress == 3         \* concurrent tasks, one distinct node each, of the stress scenario
MaxNodes == 2          \* a Register request arrives only while NODES stays within this length

----------------------------------------------------------------------------
(* Data *)

None == "None"         \* Option::None of ipv6_address

\* struct Node values the clients send: one key with and without the reserved
\* field, one key sharing only its address, one sharing only its port
Requests ==
    { [ipv4_address |-> "10.0.0.1", ipv6_address |-> None,  port |-> 9000],
      [ipv4_address |-> "10.0.0.1", ipv6_address |-> "::1", port |-> 9000],
      [ipv4_address |-> "10.0.0.1", ipv6_address |-> None,  port |-> 9001],
      [ipv4_address |-> "10.0.0.2", ipv6_address |-> None,  port |-> 9000] }

\* The request of a handler that takes no body
NoInfo == [ipv4_address |-> "", ipv6_address |-> None, port |-> 0]

\* The (address, port) pair of a node
KeyOf(node) == [ipv4_address |-> node.ipv4_address, port |-> node.port]

Keys == {KeyOf(r) : r \in Requests}

Tasks == DOMAIN pc

\* Slip: && written for || in the closure
KeepEither(node, i) == node.ipv4_address # i.ipv4_address /\ node.port # i.port

\* Slip: the closure compares whole nodes, the reserved field included
KeepWholeNode(node, i) == node # i

\* Slip: the closure forgets the port
KeepAddressOnly(node, i) == node.ipv4_address # i.ipv4_address

\* The closure handed to retain in deregister: TRUE keeps the node
Keep(node, i) == node.ipv4_address # i.ipv4_address \/ node.port # i.port

\* Slip: only the first entry the closure rejects is removed
RetainFirstOnly(seq, i) ==
    LET rejected == {j \in 1..Len(seq) : ~Keep(seq[j], i)} IN
    IF rejected = {} THEN seq
    ELSE LET first == CHOOSE j \in rejected : \A k \in rejected : j <= k IN
         SubSeq(seq, 1, first - 1) \o SubSeq(seq, first + 1, Len(seq))

\* Vec::retain with deregister's closure, as one step
Retain(seq, i) == SelectSeq(seq, LAMBDA node : Keep(node, i))

\* Slip: register pushes the request body as it came
NewNodeKeepsIpv6(i) == i

\* The Node that register builds from the request body
NewNode(i) == [ipv4_address |-> i.ipv4_address, ipv6_address |-> None, port |-> i.port]

\* Slip: query answers with a default port
ChosenDefaultPort(node) == [ipv4_address |-> node.ipv4_address, ipv6_address |-> None, port |-> 0]

\* The Node that query builds from the chosen element
Chosen(node) == [ipv4_address |-> node.ipv4_address, ipv6_address |-> None, port |-> node.port]

\* format!("register node {}:{} successfully", ipv4_address, port)
RegisterMessage(i) == <<"register node ", i.ipv4_address, ":", i.port, " successfully">>

\* Slip: deregister answers with register's text
DeregisterMessageCopied(i) == <<"register node ", i.ipv4_address, ":", i.port, " successfully">>

\* format!("deregister node {}:{} successfully", info.ipv4_address, info.port)
DeregisterMessage(i) == <<"deregister node ", i.ipv4_address, ":", i.port, " successfully">>

\* .json("no active nodes in the network"): the JSON string
NoActiveNodes == <<"\"", "no active nodes in the network", "\"">>

\* .json(Node {..}): the JSON object serde derives for struct Node
NodeJson(node) ==
    <<"{", "ipv4_address", node.ipv4_address,
           "ipv6_address", IF node.ipv6_address = None THEN "null" ELSE node.ipv6_address,
           "port", node.port, "}">>

\* HttpResponse::Ok()
Ok(body) == [status |-> 200, body |-> body]

\* A JSON value of a request body: a string, a number, null, or the field is absent
JStr(s) == [type |-> "string", str |-> s, num |-> 0]
JNum(n) == [type |-> "number", str |-> "", num |-> n]
JNull == [type |-> "null", str |-> "", num |-> 0]
JAbsent == [type |-> "absent", str |-> "", num |-> 0]

\* A JSON object of a request body, by the fields a client may send
\* (`address` is not a field of struct Node: serde skips unknown fields)
JsonBody(ipv4, ipv6, port, address) ==
    [ipv4_address |-> ipv4, ipv6_address |-> ipv6, port |-> port, address |-> address]

NoBody == JsonBody(JAbsent, JAbsent, JAbsent, JAbsent)

\* The task has received no request
NoRequest == [path |-> "", body |-> NoBody]

\* The handler of the task has not returned
NoResponse == [status |-> 0, body |-> <<>>]

\* Number of entries of seq with the (address, port) of k
Count(seq, k) == Cardinality({j \in 1..Len(seq) : KeyOf(seq[j]) = KeyOf(k)})

RemoveAt(seq, j) == SubSeq(seq, 1, j - 1) \o SubSeq(seq, j + 1, Len(seq))

\* Registers of key k completed since the last completed Deregister of k
Registered(k) == IF k \in DOMAIN regCount THEN regCount[k] ELSE 0

----------------------------------------------------------------------------
(* Mutex<Vec<Node>> *)

\* Slip: the handler enters without waiting for the mutex
MutexLockNoWait == locked' = TRUE

\* NODES.lock(): blocks until the mutex is free, then takes it
MutexLock == ~locked /\ locked' = TRUE

\* drop of the MutexGuard
MutexUnlock == locked' = FALSE

----------------------------------------------------------------------------
(* Initial state: Lazy::new(|| Arc::new(Mutex::new(Vec::new()))) *)

InitTasks(n) ==
    /\ NODES = <<>>
    /\ locked = FALSE
    /\ pc = [t \in 1..n |-> "idle"]
    /\ info = [t \in 1..n |-> NoInfo]
    /\ idx = [t \in 1..n |-> 0]
    /\ resp = [t \in 1..n |-> NoResponse]
    /\ request = [t \in 1..n |-> NoRequest]
    /\ serial = <<>>
    /\ regCount = <<>>

Init == InitTasks(NumTasks)

----------------------------------------------------------------------------
(* Requests arriving: actix-web hands the decoded body to the handler *)

InFlightRegisters == Cardinality({t \in Tasks : pc[t] \in {"register_lock", "register_push"}})

Receive(t, handler, body) ==
    /\ pc[t] = "idle"
    /\ pc' = [pc EXCEPT ![t] = handler]
    /\ info' = [info EXCEPT ![t] = body]
    /\ resp' = [resp EXCEPT ![t] = NoResponse]
    /\ UNCHANGED <<NODES, locked, idx, serial, regCount, request>>

\* POST /register with a body out of `bodies`
RegisterFrom(t, bodies) ==
    /\ Len(NODES) + InFlightRegisters < MaxNodes
    /\ \E body \in bodies : Receive(t, "register_lock", body)

\* POST /deregister with a body out of `bodies`
DeregisterFrom(t, bodies) == \E body \in bodies : Receive(t, "deregister_lock", body)

RegisterCall(t) == RegisterFrom(t, Requests)

DeregisterCall(t) == DeregisterFrom(t, Requests)

QueryCall(t) == Receive(t, "query_lock", NoInfo)

----------------------------------------------------------------------------
(* register, main.rs:53-67 *)

RegisterLock(t) ==
    /\ pc[t] = "register_lock"
    /\ MutexLock
    /\ pc' = [pc EXCEPT ![t] = "register_push"]
    /\ serial' = Append(serial, NewNode(info[t]))
    /\ UNCHANGED <<NODES, info, idx, resp, regCount, request>>

RegisterPush(t) ==
    /\ pc[t] = "register_push"
    /\ NODES' = Append(NODES, NewNode(info[t]))
    /\ MutexUnlock
    /\ resp' = [resp EXCEPT ![t] = Ok(RegisterMessage(info[t]))]
    /\ pc' = [pc EXCEPT ![t] = "idle"]
    /\ regCount' = [k \in DOMAIN regCount \cup {KeyOf(info[t])} |->
                        IF k = KeyOf(info[t]) THEN Registered(k) + 1 ELSE regCount[k]]
    /\ UNCHANGED <<info, idx, serial, request>>

----------------------------------------------------------------------------
(* deregister, main.rs:42-51 *)

DeregisterLock(t) ==
    /\ pc[t] = "deregister_lock"
    /\ MutexLock
    /\ pc' = [pc EXCEPT ![t] = "deregister_retain"]
    /\ idx' = [idx EXCEPT ![t] = 1]
    /\ serial' = Retain(serial, info[t])
    /\ UNCHANGED <<NODES, info, resp, regCount, request>>

\* Slip: the scan stops at the first element it removes
DeregisterRetainStepFirstOnly(t) ==
    /\ pc[t] = "deregister_retain"
    /\ idx[t] <= Len(NODES)
    /\ \/ /\ Keep(NODES[idx[t]], info[t])
          /\ idx' = [idx EXCEPT ![t] = @ + 1]
          /\ UNCHANGED NODES
       \/ /\ ~Keep(NODES[idx[t]], info[t])
          /\ NODES' = RemoveAt(NODES, idx[t])
          /\ idx' = [idx EXCEPT ![t] = Len(NODES)]
    /\ UNCHANGED <<locked, pc, info, resp, serial, regCount, request>>

\* Slip: the scan moves on after a removal and skips the element that slid in
DeregisterRetainStepSkips(t) ==
    /\ pc[t] = "deregister_retain"
    /\ idx[t] <= Len(NODES)
    /\ \/ /\ Keep(NODES[idx[t]], info[t])
          /\ UNCHANGED NODES
       \/ /\ ~Keep(NODES[idx[t]], info[t])
          /\ NODES' = RemoveAt(NODES, idx[t])
    /\ idx' = [idx EXCEPT ![t] = @ + 1]
    /\ UNCHANGED <<locked, pc, info, resp, serial, regCount, request>>

\* Slip: the scan does not move past an element it keeps
DeregisterRetainStepStuck(t) ==
    /\ pc[t] = "deregister_retain"
    /\ idx[t] <= Len(NODES)
    /\ \/ /\ Keep(NODES[idx[t]], info[t])
          /\ UNCHANGED <<NODES, idx>>
       \/ /\ ~Keep(NODES[idx[t]], info[t])
          /\ NODES' = RemoveAt(NODES, idx[t])
          /\ UNCHANGED idx
    /\ UNCHANGED <<locked, pc, info, resp, serial, regCount, request>>

\* retain visits one element: the closure decides whether it stays
DeregisterRetainStep(t) ==
    /\ pc[t] = "deregister_retain"
    /\ idx[t] <= Len(NODES)
    /\ \/ /\ Keep(NODES[idx[t]], info[t])
          /\ idx' = [idx EXCEPT ![t] = @ + 1]
          /\ UNCHANGED NODES
       \/ /\ ~Keep(NODES[idx[t]], info[t])
          /\ NODES' = RemoveAt(NODES, idx[t])
          /\ UNCHANGED idx
    /\ UNCHANGED <<locked, pc, info, resp, serial, regCount, request>>

\* retain has visited every element: the guard drops and the handler answers
DeregisterDone(t) ==
    /\ pc[t] = "deregister_retain"
    /\ idx[t] > Len(NODES)
    /\ MutexUnlock
    /\ resp' = [resp EXCEPT ![t] = Ok(DeregisterMessage(info[t]))]
    /\ pc' = [pc EXCEPT ![t] = "idle"]
    /\ idx' = [idx EXCEPT ![t] = 0]
    /\ regCount' = [k \in DOMAIN regCount \ {KeyOf(info[t])} |-> regCount[k]]
    /\ UNCHANGED <<NODES, info, serial, request>>

----------------------------------------------------------------------------
(* query, main.rs:69-90 *)

QueryLock(t) ==
    /\ pc[t] = "query_lock"
    /\ MutexLock
    /\ pc' = [pc EXCEPT ![t] = "query_locked"]
    /\ UNCHANGED <<NODES, info, idx, resp, serial, regCount, request>>

\* Slip: the emptiness test is off by one
QueryEmptyOffByOne(t) ==
    /\ pc[t] = "query_locked"
    /\ Len(NODES) <= 1
    /\ resp' = [resp EXCEPT ![t] = Ok(NoActiveNodes)]
    /\ MutexUnlock
    /\ pc' = [pc EXCEPT ![t] = "idle"]
    /\ UNCHANGED <<NODES, info, idx, serial, regCount, request>>

\* Slip: the early return leaves the guard alive
QueryEmptyKeepsLock(t) ==
    /\ pc[t] = "query_locked"
    /\ Len(NODES) = 0
    /\ resp' = [resp EXCEPT ![t] = Ok(NoActiveNodes)]
    /\ pc' = [pc EXCEPT ![t] = "idle"]
    /\ UNCHANGED <<NODES, locked, info, idx, serial, regCount, request>>

\* nodes.is_empty(): the early return
QueryEmpty(t) ==
    /\ pc[t] = "query_locked"
    /\ Len(NODES) = 0
    /\ resp' = [resp EXCEPT ![t] = Ok(NoActiveNodes)]
    /\ MutexUnlock
    /\ pc' = [pc EXCEPT ![t] = "idle"]
    /\ UNCHANGED <<NODES, info, idx, serial, regCount, request>>

\* Slip: the choice is made among the distinct pairs (first occurrences)
ChoiceIndicesDeduplicated(seq) ==
    {j \in 1..Len(seq) : \A i \in 1..(j - 1) : KeyOf(seq[i]) # KeyOf(seq[j])}

\* The positions slice.choose(rng) draws from: every index of the slice
ChoiceIndices(seq) == 1..Len(seq)

\* Slip: query takes the chosen node out of the list
QueryChoosePops(t) ==
    /\ pc[t] = "query_locked"
    /\ Len(NODES) # 0
    /\ \E j \in ChoiceIndices(NODES) :
          /\ resp' = [resp EXCEPT ![t] = Ok(NodeJson(Chosen(NODES[j])))]
          /\ NODES' = RemoveAt(NODES, j)
    /\ MutexUnlock
    /\ pc' = [pc EXCEPT ![t] = "idle"]
    /\ UNCHANGED <<info, idx, serial, regCount, request>>

\* nodes.choose(&mut rand::thread_rng()).unwrap()
QueryChoose(t) ==
    /\ pc[t] = "query_locked"
    /\ Len(NODES) # 0
    /\ \E j \in ChoiceIndices(NODES) :
          resp' = [resp EXCEPT ![t] = Ok(NodeJson(Chosen(NODES[j])))]
    /\ MutexUnlock
    /\ pc' = [pc EXCEPT ![t] = "idle"]
    /\ UNCHANGED <<NODES, info, idx, serial, regCount, request>>

----------------------------------------------------------------------------
(* The server: any task receives any request, handlers interleave *)

Next ==
    \/ \E t \in Tasks : RegisterCall(t)
    \/ \E t \in Tasks : DeregisterCall(t)
    \/ \E t \in Tasks : QueryCall(t)
    \/ \E t \in Tasks : RegisterLock(t)
    \/ \E t \in Tasks : RegisterPush(t)
    \/ \E t \in Tasks : DeregisterLock(t)
    \/ \E t \in Tasks : DeregisterRetainStep(t)
    \/ \E t \in Tasks : DeregisterDone(t)
    \/ \E t \in Tasks : QueryLock(t)
    \/ \E t \in Tasks : QueryEmpty(t)
    \/ \E t \in Tasks : QueryChoose(t)

Spec == Init /\ [][Next]_vars


\* A fair mutex and a scheduler that keeps running every task
Fairness ==
    \A t \in 1..NumTasks :
        /\ SF_vars(RegisterLock(t) \/ DeregisterLock(t) \/ QueryLock(t))
        /\ WF_vars(RegisterPush(t) \/ DeregisterRetainStep(t) \/ DeregisterDone(t)
                       \/ QueryEmpty(t) \/ QueryChoose(t))

\* The server under requests for two pairs only (the scan of retain meets
\* elements it keeps and elements it removes)
FairRequests == {r \in Requests : r.ipv4_address = "10.0.0.1" /\ r.ipv6_address = None}

FairNext ==
    \/ \E t \in Tasks : RegisterFrom(t, FairRequests)
    \/ \E t \in Tasks : DeregisterFrom(t, FairRequests)
    \/ \E t \in Tasks : QueryCall(t)
    \/ \E t \in Tasks : RegisterLock(t)
    \/ \E t \in Tasks : RegisterPush(t)
    \/ \E t \in Tasks : DeregisterLock(t)
    \/ \E t \in Tasks : DeregisterRetainStep(t)
    \/ \E t \in Tasks : DeregisterDone(t)
    \/ \E t \in Tasks : QueryLock(t)
    \/ \E t \in Tasks : QueryEmpty(t)
    \/ \E t \in Tasks : QueryChoose(t)

FairSpec == Init /\ [][FairNext]_vars /\ Fairness

----------------------------------------------------------------------------
(* The stress scenario: NumStress tasks register one distinct node each,   *)
(* all at once; when every register has returned, the same tasks           *)
(* deregister their nodes, all at once.                                    *)

StressNode(t) == [ipv4_address |-> "10.0.0.1", ipv6_address |-> None, port |-> 9000 + t]

StressRegisterCall(t) ==
    /\ resp[t] = NoResponse
    /\ Receive(t, "register_lock", StressNode(t))

StressDeregisterCall(t) ==
    /\ resp[t] = Ok(RegisterMessage(StressNode(t)))
    /\ \A u \in Tasks :
          resp[u] # NoResponse \/ pc[u] \in {"deregister_lock", "deregister_retain"}
    /\ Receive(t, "deregister_lock", StressNode(t))

StressInit == InitTasks(NumStress)

StressNext ==
    \/ \E t \in Tasks : StressRegisterCall(t)
    \/ \E t \in Tasks : StressDeregisterCall(t)
    \/ \E t \in Tasks : RegisterLock(t)
    \/ \E t \in Tasks : RegisterPush(t)
    \/ \E t \in Tasks : DeregisterLock(t)
    \/ \E t \in Tasks : DeregisterRetainStep(t)
    \/ \E t \in Tasks : DeregisterDone(t)

StressSpec == StressInit /\ [][StressNext]_vars

----------------------------------------------------------------------------
(* The transport: actix-web decodes the JSON body of a POST into the       *)
(* web::Json<Node> of the handler's signature, or answers 400 itself.      *)

\* Bodies the clients send: a well-formed one, and bodies with a required
\* field missing (the first names the address `address`) or of a wrong type
RawBodies ==
    { JsonBody(JStr("10.0.0.1"), JStr("::1"), JNum(9000),   JAbsent),
      JsonBody(JAbsent,          JAbsent,     JNum(9000),   JStr("10.0.0.1")),
      JsonBody(JStr("10.0.0.1"), JAbsent,     JAbsent,      JAbsent),
      JsonBody(JStr("10.0.0.1"), JAbsent,     JStr("9000"), JAbsent),
      JsonBody(JNum(10),         JNull,       JNum(65536),  JAbsent) }

\* Slip: #[serde(default)] on port, a body without port decodes
DecodesDefaultPort(body) ==
    /\ body.ipv4_address.type = "string"
    /\ \/ body.port.type = "absent"
       \/ body.port.type = "number" /\ body.port.num \in 0..65535
    /\ body.ipv6_address.type \in {"absent", "null", "string"}

\* #[derive(Deserialize)] struct Node: does the body decode?
\* ipv4_address: String and port: u16 are required, ipv6_address: Option<String> is not
Decodes(body) ==
    /\ body.ipv4_address.type = "string"
    /\ body.port.type = "number" /\ body.port.num \in 0..65535
    /\ body.ipv6_address.type \in {"absent", "null", "string"}

\* The Node a body decodes to
Decode(body) ==
    [ipv4_address |-> body.ipv4_address.str,
     ipv6_address |-> IF body.ipv6_address.type = "string" THEN body.ipv6_address.str ELSE None,
     port |-> body.port.num]

\* The answer of the Json extractor to a body that does not decode
BadRequest == [status |-> 400, body |-> <<"Json deserialize error">>]

\* The body decodes: the handler starts with it
HttpAccept(t, handler, req) ==
    /\ pc[t] = "idle"
    /\ Decodes(req.body)
    /\ pc' = [pc EXCEPT ![t] = handler]
    /\ info' = [info EXCEPT ![t] = Decode(req.body)]
    /\ resp' = [resp EXCEPT ![t] = NoResponse]
    /\ request' = [request EXCEPT ![t] = req]
    /\ UNCHANGED <<NODES, locked, idx, serial, regCount>>

\* The body does not decode: 400, and the handler is never called
HttpReject(t, req) ==
    /\ pc[t] = "idle"
    /\ ~Decodes(req.body)
    /\ info' = [info EXCEPT ![t] = NoInfo]
    /\ resp' = [resp EXCEPT ![t] = BadRequest]
    /\ request' = [request EXCEPT ![t] = req]
    /\ UNCHANGED <<NODES, locked, pc, idx, serial, regCount>>

\* POST /register with body b
PostRegisterBody(t, b) ==
    \/ /\ Len(NODES) + InFlightRegisters < MaxNodes
       /\ HttpAccept(t, "register_lock", [path |-> "POST /register", body |-> b])
    \/ HttpReject(t, [path |-> "POST /register", body |-> b])

\* POST /deregister with body b
PostDeregisterBody(t, b) ==
    \/ HttpAccept(t, "deregister_lock", [path |-> "POST /deregister", body |-> b])
    \/ HttpReject(t, [path |-> "POST /deregister", body |-> b])

PostRegister(t) == \E b \in RawBodies : PostRegisterBody(t, b)

PostDeregister(t) == \E b \in RawBodies : PostDeregisterBody(t, b)

\* GET /query
GetQuery(t) ==
    /\ pc[t] = "idle"
    /\ pc' = [pc EXCEPT ![t] = "query_lock"]
    /\ info' = [info EXCEPT ![t] = NoInfo]
    /\ resp' = [resp EXCEPT ![t] = NoResponse]
    /\ request' = [request EXCEPT ![t] = [path |-> "GET /query", body |-> NoBody]]
    /\ UNCHANGED <<NODES, locked, idx, serial, regCount>>

HttpNext ==
    \/ \E t \in Tasks : PostRegister(t)
    \/ \E t \in Tasks : PostDeregister(t)
    \/ \E t \in Tasks : GetQuery(t)
    \/ \E t \in Tasks : RegisterLock(t)
    \/ \E t \in Tasks : RegisterPush(t)
    \/ \E t \in Tasks : DeregisterLock(t)
    \/ \E t \in Tasks : DeregisterRetainStep(t)
    \/ \E t \in Tasks : DeregisterDone(t)
    \/ \E t \in Tasks : QueryLock(t)
    \/ \E t \in Tasks : QueryEmpty(t)
    \/ \E t \in Tasks : QueryChoose(t)

HttpSpec == Init /\ [][HttpNext]_vars

----------------------------------------------------------------------------
(* The end-to-end example: task 1 is a client that registers 10.0.0.1:9000, *)
(* queries, deregisters it and queries again, each request after the answer *)
(* to the one before; the other tasks only query or send bodies that do not *)
(* decode, so the registry is the client's alone.                           *)

ExampleBody == JsonBody(JStr("10.0.0.1"), JAbsent, JNum(9000), JAbsent)

ExampleKey == KeyOf(Decode(ExampleBody))

ExampleRegister ==
    /\ request[1] = NoRequest
    /\ PostRegisterBody(1, ExampleBody)

ExampleFirstQuery ==
    /\ request[1].path = "POST /register"
    /\ GetQuery(1)

ExampleDeregister ==
    /\ request[1].path = "GET /query"
    /\ Registered(ExampleKey) = 1
    /\ PostDeregisterBody(1, ExampleBody)

ExampleSecondQuery ==
    /\ request[1].path = "POST /deregister"
    /\ GetQuery(1)

ExampleOtherQuery == \E t \in Tasks \ {1} : GetQuery(t)

ExampleOtherRejected ==
    \E t \in Tasks \ {1} : \E b \in RawBodies :
        \/ HttpReject(t, [path |-> "POST /register", body |-> b])
        \/ HttpReject(t, [path |-> "POST /deregister", body |-> b])

ExampleNext ==
    \/ ExampleRegister
    \/ ExampleFirstQuery
    \/ ExampleDeregister
    \/ ExampleSecondQuery
    \/ ExampleOtherQuery
    \/ ExampleOtherRejected
    \/ \E t \in Tasks : RegisterLock(t)
    \/ \E t \in Tasks : RegisterPush(t)
    \/ \E t \in Tasks : DeregisterLock(t)
    \/ \E t \in Tasks : DeregisterRetainStep(t)
    \/ \E t \in Tasks : DeregisterDone(t)
    \/ \E t \in Tasks : QueryLock(t)
    \/ \E t \in Tasks : QueryEmpty(t)
    \/ \E t \in Tasks : QueryChoose(t)

ExampleSpec == Init /\ [][ExampleNext]_vars

----------------------------------------------------------------------------
(* Properties *)

\* Task t's handler returns in this step, having stood at `from`
Returns(t, from) == pc[t] = from /\ pc'[t] = "idle"

\* The pcs at which a task owns the MutexGuard
Holding == {"register_push", "deregister_retain", "query_locked"}

\* The pcs at which a task is blocked in NODES.lock()
Waiting == {"register_lock", "deregister_lock", "query_lock"}

\* Reading a query response back: is it a JSON Node object, and its (address, port)
IsNodeJson(body) == Len(body) = 8 /\ body[2] = "ipv4_address" /\ body[6] = "port"
JsonKey(body) == [ipv4_address |-> body[3], port |-> body[7]]

\* C1: when a Deregister returns, no entry with its (address, port) is left,
\* however many times that pair was registered; and a query answered while
\* every registered pair has since been deregistered gets the empty-result.
DeregisterRemovesAllMatches ==
    [][\A t \in Tasks :
          /\ Returns(t, "deregister_retain") => Count(NODES', info[t]) = 0
          /\ (Returns(t, "query_locked") /\ DOMAIN regCount = {})
                => resp'[t] = Ok(NoActiveNodes)]_vars

\* C1 witness: a retain that has scanned everything, after its pair was
\* registered MaxNodes (>= 2) times, with nothing left.
DeregisterRemovedDuplicates ==
    \E t \in Tasks :
        /\ pc[t] = "deregister_retain"
        /\ idx[t] > Len(NODES)
        /\ MaxNodes >= 2
        /\ Registered(KeyOf(info[t])) = MaxNodes
        /\ NODES = <<>>

\* C2: a Register that returns has appended exactly one element to NODES:
\* the request's address and port, ipv6_address None; everything that was
\* there stays in place, duplicates or not, and the answer is 200.
RegisterAppendsOne ==
    [][\A t \in Tasks :
          Returns(t, "register_push") =>
              /\ Len(NODES') = Len(NODES) + 1
              /\ SubSeq(NODES', 1, Len(NODES)) = NODES
              /\ NODES'[Len(NODES')].ipv4_address = info[t].ipv4_address
              /\ NODES'[Len(NODES')].port = info[t].port
              /\ NODES'[Len(NODES')].ipv6_address = None
              /\ resp'[t].status = 200]_vars

\* C2 witness: a Register whose body carried an ipv6_address has returned
\* and its pair is in NODES twice.
RegisteredDuplicateWithIpv6 ==
    \E t \in Tasks :
        /\ pc[t] = "idle"
        /\ resp[t] = Ok(RegisterMessage(info[t]))
        /\ info[t].ipv6_address # None
        /\ Len(NODES) = 2
        /\ KeyOf(NODES[1]) = KeyOf(info[t])
        /\ KeyOf(NODES[2]) = KeyOf(info[t])

\* C3: a query answers "no active nodes in the network" exactly when NODES
\* is empty as it reads it; otherwise it answers a Node whose (address, port)
\* is that of some entry of NODES.
QueryEmptyIffEmpty ==
    [][\A t \in Tasks :
          Returns(t, "query_locked") =>
              /\ resp'[t].status = 200
              /\ (resp'[t].body = NoActiveNodes) <=> (NODES = <<>>)
              /\ NODES # <<>> =>
                    /\ IsNodeJson(resp'[t].body)
                    /\ \E j \in 1..Len(NODES) : JsonKey(resp'[t].body) = KeyOf(NODES[j])]_vars

\* C3 witness: one query has answered the sentinel and another a node.
QueryAnsweredBothWays ==
    \E t, u \in Tasks :
        /\ pc[t] = "idle" /\ resp[t] = Ok(NoActiveNodes)
        /\ pc[u] = "idle" /\ IsNodeJson(resp[u].body)

\* C4: while exactly one pair k is registered (once or several times, no
\* Deregister of it completed since, no other pair registered), every query
\* that returns answers a node with k's address and port.
RegisterThenQueryReturnsIt ==
    [][\A t \in Tasks : \A k \in Keys :
          (Returns(t, "query_locked") /\ DOMAIN regCount = {k}) =>
              /\ IsNodeJson(resp'[t].body)
              /\ JsonKey(resp'[t].body) = k]_vars

\* C4 witness: a query has answered the only pair registered, registered twice.
QueriedOnlyRegisteredPair ==
    \E t \in Tasks :
        /\ pc[t] = "idle"
        /\ IsNodeJson(resp[t].body)
        /\ DOMAIN regCount = {JsonKey(resp[t].body)}
        /\ regCount[JsonKey(resp[t].body)] = 2
        /\ Len(NODES) = 2

\* C5: in the stress scenario, once every Register has returned NODES holds
\* each task's node exactly once and nothing else; once every Deregister has
\* returned NODES is empty.
StressNoLostUpdate ==
    /\ (\A t \in Tasks : pc[t] = "idle" /\ resp[t] = Ok(RegisterMessage(StressNode(t))))
          => /\ Len(NODES) = NumStress
             /\ \A t \in Tasks : Count(NODES, StressNode(t)) = 1
    /\ (\A t \in Tasks : pc[t] = "idle" /\ resp[t] = Ok(DeregisterMessage(StressNode(t))))
          => NODES = <<>>

\* C5 witness: every Deregister of the scenario has returned.
StressFinished ==
    /\ \A t \in Tasks : pc[t] = "idle" /\ resp[t] = Ok(DeregisterMessage(StressNode(t)))
    /\ NODES = <<>>

\* C6: the handlers are atomic: whenever the mutex is free, and whenever a
\* query or a register is about to touch NODES, NODES is what the serial
\* execution of the calls (in the order they took the mutex) has produced;
\* and every query answers from that serial collection.
Linearizable ==
    /\ [](/\ ~locked => NODES = serial
          /\ \A t \in Tasks :
                /\ pc[t] = "query_locked" => NODES = serial
                /\ pc[t] = "register_push" => Append(NODES, NewNode(info[t])) = serial)
    /\ [][\A t \in Tasks :
            Returns(t, "query_locked") =>
                IF serial = <<>>
                THEN resp'[t] = Ok(NoActiveNodes)
                ELSE \E j \in 1..Len(serial) : resp'[t] = Ok(NodeJson(Chosen(serial[j])))]_vars

\* C6 witness: a query waits for the mutex while a Deregister of a pair
\* registered twice has removed one of its two entries.
QueryWaitsOnPartialRetain ==
    \E t, u \in Tasks :
        /\ pc[t] = "query_lock"
        /\ pc[u] = "deregister_retain"
        /\ Registered(KeyOf(info[u])) = 2
        /\ Count(NODES, info[u]) = 1

\* C7: every entry of NODES is a node some Register supplied, with no
\* Deregister of its pair completed since; and for every pair, unless a
\* Deregister of it is scanning NODES, the number of its entries is the
\* number of Registers of it since the last completed Deregister of it.
OnlyRegisteredNotDeregistered ==
    /\ \A j \in 1..Len(NODES) :
          /\ Registered(KeyOf(NODES[j])) >= 1
          /\ NODES[j] = NewNode(NODES[j])
    /\ \A k \in Keys :
          /\ Count(NODES, k) <= Registered(k)
          /\ (\A t \in Tasks : ~(pc[t] = "deregister_retain" /\ KeyOf(info[t]) = k))
                => Count(NODES, k) = Registered(k)

\* C7 witness: a Deregister has returned, its pair is gone, and another pair
\* sits in NODES as often as it was registered.
DeregisteredOneKeptOther ==
    \E t \in Tasks :
        /\ pc[t] = "idle"
        /\ resp[t] = Ok(DeregisterMessage(info[t]))
        /\ Len(NODES) >= 1
        /\ Count(NODES, info[t]) = 0
        /\ Registered(KeyOf(NODES[1])) = Len(NODES)

\* C8: while a Deregister whose pair has no entry in NODES holds the mutex,
\* no step changes NODES, and it returns 200.
DeregisterNoMatchNoOp ==
    [][\A t \in Tasks :
          /\ (pc[t] = "deregister_lock" /\ pc'[t] = "deregister_retain") => NODES' = NODES
          /\ (pc[t] = "deregister_retain" /\ Count(NODES, info[t]) = 0) =>
                /\ NODES' = NODES
                /\ Len(NODES') = Len(NODES)
                /\ pc'[t] = "idle" => resp'[t] = Ok(DeregisterMessage(info[t]))]_vars

\* C8 witness: a retain for a pair that is not registered has scanned a
\* non-empty NODES to its end and kept every element.
DeregisterScannedNoMatch ==
    \E t \in Tasks :
        /\ pc[t] = "deregister_retain"
        /\ Registered(KeyOf(info[t])) = 0
        /\ Len(NODES) >= 1
        /\ idx[t] = Len(NODES) + 1

\* C9: at most one handler owns the guard; the mutex is locked exactly while
\* some handler owns it, so it is free again once that handler has returned
\* (the early return of query included); NODES changes only under the guard.
LockDiscipline ==
    /\ [](/\ Cardinality({t \in Tasks : pc[t] \in Holding}) <= 1
          /\ locked <=> (\E t \in Tasks : pc[t] \in Holding))
    /\ [][NODES' # NODES => (locked /\ \E t \in Tasks : pc[t] \in Holding)]_vars

\* C9 witness: a query has taken the early return and another handler owns
\* the guard after it.
LockTakenAfterEarlyReturn ==
    \E t, u \in Tasks :
        /\ pc[t] = "idle" /\ resp[t] = Ok(NoActiveNodes)
        /\ pc[u] \in Holding
        /\ locked

\* Some step of some handler (not the arrival of a request)
HandlerStep ==
    \E t \in Tasks :
        \/ RegisterLock(t) \/ RegisterPush(t)
        \/ DeregisterLock(t) \/ DeregisterRetainStep(t) \/ DeregisterDone(t)
        \/ QueryLock(t) \/ QueryEmpty(t) \/ QueryChoose(t)

\* C10: with a fair mutex and a fair scheduler, every call that has been
\* received returns; and while any call is in flight some handler can step
\* (no deadlock).
EveryCallReturns ==
    /\ \A t \in 1..NumTasks : (pc[t] # "idle") ~> (pc[t] = "idle")
    /\ []((\E t \in Tasks : pc[t] # "idle") => ENABLED HandlerStep)

\* C10 witness: a handler is blocked in lock() while another one scans NODES.
BlockedBehindRetain ==
    \E t, u \in Tasks :
        /\ pc[t] \in Waiting
        /\ pc[u] = "deregister_retain"
        /\ idx[u] <= Len(NODES)

\* A POST body with a required field missing or of the wrong type
IsPost(req) == req.path \in {"POST /register", "POST /deregister"}
MissingRequired(body) == body.ipv4_address.type = "absent" \/ body.port.type = "absent"
WrongType(body) ==
    \/ body.ipv4_address.type \notin {"absent", "string"}
    \/ body.port.type \notin {"absent", "number"}
    \/ body.port.type = "number" /\ ~(body.port.num >= 0 /\ body.port.num < 65536)
Malformed(req) == IsPost(req) /\ (MissingRequired(req.body) \/ WrongType(req.body))

\* C11: a task whose last request is a malformed POST stands idle with a
\* 400-class answer; the step that receives a malformed POST changes neither
\* NODES nor the mutex nor any handler; a handler starts only on a GET /query
\* or a well-formed POST, with that body's address and port; and a
\* well-formed POST that has returned was answered 200.
MalformedNeverReachesRegistry ==
    /\ [](\A t \in Tasks :
            /\ Malformed(request[t]) =>
                  pc[t] = "idle" /\ resp[t].status >= 400 /\ resp[t].status < 500
            /\ (IsPost(request[t]) /\ ~Malformed(request[t]) /\ pc[t] = "idle")
                  => resp[t].status = 200)
    /\ [][\A t \in Tasks :
            /\ (Malformed(request'[t]) /\ <<request[t], resp[t]>> # <<request'[t], resp'[t]>>)
                  => UNCHANGED <<NODES, locked, pc, idx, serial, regCount>>
            /\ (pc[t] = "idle" /\ pc'[t] # "idle") =>
                  /\ ~Malformed(request'[t])
                  /\ IsPost(request'[t]) =>
                        /\ info'[t].ipv4_address = request'[t].body.ipv4_address.str
                        /\ info'[t].port = request'[t].body.port.num]_vars

\* C11 witness: one task was answered 400 for a malformed POST, another 200
\* for a well-formed POST /register whose node is in NODES.
RejectedAndServed ==
    \E t, u \in Tasks :
        /\ Malformed(request[t]) /\ resp[t] = BadRequest
        /\ request[u].path = "POST /register" /\ ~Malformed(request[u])
        /\ pc[u] = "idle" /\ resp[u] = Ok(RegisterMessage(info[u]))
        /\ Count(NODES, info[u]) >= 1

\* C12: in the example, every answer the client has got is the one the
\* example gives for its request: 200 and the register text for
\* 10.0.0.1:9000; 200 and the node 10.0.0.1:9000 for the query while it is
\* registered; 200 and the deregister text; 200 and the sentinel for the
\* query after the deregister.
ExampleAnswersInOrder ==
    pc[1] = "idle" =>
        /\ request[1].path = "POST /register" =>
              resp[1] = [status |-> 200,
                         body |-> <<"register node ", "10.0.0.1", ":", 9000, " successfully">>]
        /\ (request[1].path = "GET /query" /\ Registered(ExampleKey) = 1) =>
              resp[1] = [status |-> 200,
                         body |-> <<"{", "ipv4_address", "10.0.0.1",
                                         "ipv6_address", "null", "port", 9000, "}">>]
        /\ request[1].path = "POST /deregister" =>
              resp[1] = [status |-> 200,
                         body |-> <<"deregister node ", "10.0.0.1", ":", 9000, " successfully">>]
        /\ (request[1].path = "GET /query" /\ Registered(ExampleKey) = 0) =>
              resp[1] = [status |-> 200,
                         body |-> <<"\"", "no active nodes in the network", "\"">>]

\* C12 witness: the client has got the answer to its last request.
ExampleFinished ==
    /\ pc[1] = "idle"
    /\ request[1].path = "GET /query"
    /\ Registered(ExampleKey) = 0
    /\ resp[1].status = 200
    /\ NODES = <<>>

MatchOnlyAddressAndPort ==
    /\ [][\A t \in Tasks :
            (/\ pc[t] = "deregister_retain"
             /\ idx[t] <= Len(NODES)
             /\ (NODES' # NODES \/ idx'[t] # idx[t])) =>
                IF /\ NODES[idx[t]].ipv4_address = info[t].ipv4_address
                   /\ NODES[idx[t]].port = info[t].port
                THEN NODES' = RemoveAt(NODES, idx[t])
                ELSE NODES' = NODES /\ idx'[t] = idx[t] + 1]_vars
    /\ [](\A r \in Requests : \A v \in {None, "::1", "fe80::1"} :
            Retain(NODES, r) = Retain(NODES, [r EXCEPT !.ipv6_address = v]))

\* C14 witness: a retain whose request carried an ipv6_address has scanned
\* NODES to the end, its pair was registered and is gone, and the entry left
\* shares exactly one of address and port with it.
DeregisterKeptPartialMatch ==
    \E t \in Tasks :
        /\ pc[t] = "deregister_retain"
        /\ idx[t] > Len(NODES)
        /\ info[t].ipv6_address # None
        /\ Registered(KeyOf(info[t])) >= 1
        /\ Count(NODES, info[t]) = 0
        /\ Len(NODES) = 1
        /\ (NODES[1].ipv4_address = info[t].ipv4_address) # (NODES[1].port = info[t].port)

\* seq without the entries whose (address, port) is key, the others in order
RECURSIVE FilterOut(_, _)
FilterOut(seq, key) ==
    IF seq = <<>> THEN <<>>
    ELSE IF KeyOf(Head(seq)) = key
         THEN FilterOut(Tail(seq), key)
         ELSE <<Head(seq)>> \o FilterOut(Tail(seq), key)

\* C15: when a Deregister takes the mutex, the serial collection becomes
\* NODES as it stands filtered of the request's pair; while it scans, the
\* entries of the other pairs stay as they are, in number and order, and
\* what it has scanned holds no entry of the pair; when it returns, NODES is
\* exactly that filtered sequence.
DeregisterIsFilter ==
    /\ [](\A t \in Tasks :
            pc[t] = "deregister_retain" =>
                /\ FilterOut(NODES, KeyOf(info[t])) = serial
                /\ \A j \in 1..Len(NODES) :
                      (j < idx[t]) => KeyOf(NODES[j]) # KeyOf(info[t]))
    /\ [][\A t \in Tasks :
            /\ (pc[t] = "deregister_lock" /\ pc'[t] = "deregister_retain")
                  => serial' = FilterOut(NODES, KeyOf(info[t]))
            /\ pc[t] = "deregister_retain" => serial' = serial
            /\ Returns(t, "deregister_retain") => NODES' = serial]_vars

\* C15 witness: a retain has scanned NODES to the end, has removed the (twice
\* registered or once registered) pair of its request and has kept another entry.
DeregisterFilteredSome ==
    \E t \in Tasks :
        /\ pc[t] = "deregister_retain"
        /\ idx[t] = Len(NODES) + 1
        /\ Registered(KeyOf(info[t])) >= 1
        /\ Len(NODES) >= 1
        /\ NODES = serial

\* C16: no step of a query (its arrival, taking the mutex, the early return,
\* the choice and answer) changes NODES.
QueryNeverModifies ==
    [][\A t \in Tasks :
          (/\ pc'[t] # pc[t]
           /\ (pc[t] \in {"query_lock", "query_locked"} \/ pc'[t] = "query_lock"))
              => NODES' = NODES /\ Len(NODES') = Len(NODES)]_vars

\* C16 witness: a query has answered a node and NODES is still full.
QueriedAndStillFull ==
    \E t \in Tasks :
        /\ pc[t] = "idle"
        /\ IsNodeJson(resp[t].body)
        /\ Len(NODES) = MaxNodes
        /\ ~locked

\* C17: a query never answers a pair that has no Register completed since
\* the last completed Deregister of that pair.
NoQueryOfDeregistered ==
    [][\A t \in Tasks :
          (Returns(t, "query_locked") /\ IsNodeJson(resp'[t].body))
              => Registered(JsonKey(resp'[t].body)) >= 1]_vars

\* C17 witness: a Deregister has returned and its pair is gone, while a
\* query has answered another pair that is still registered.
QueriedOtherAfterDeregister ==
    \E t, u \in Tasks :
        /\ pc[t] = "idle" /\ resp[t] = Ok(DeregisterMessage(info[t]))
        /\ Registered(KeyOf(info[t])) = 0
        /\ pc[u] = "idle" /\ IsNodeJson(resp[u].body)
        /\ JsonKey(resp[u].body) # KeyOf(info[t])
        /\ Registered(JsonKey(resp[u].body)) >= 1

\* C18: filtering NODES by a twice gives what filtering it once gives, and
\* filtering by a then b gives what filtering by b then a gives; and when a
\* deregister has finished its scan, filtering NODES by its request again
\* changes nothing.
DeregisterIdempotentCommutes ==
    /\ \A a, b \in Requests :
          /\ Retain(Retain(NODES, a), a) = Retain(NODES, a)
          /\ Retain(Retain(NODES, a), b) = Retain(Retain(NODES, b), a)
    /\ \A t \in Tasks :
          (pc[t] = "deregister_retain" /\ idx[t] > Len(NODES))
              => Retain(NODES, info[t]) = NODES

\* C18 witness: NODES holds entries of two different pairs, so that both
\* Deregisters remove something.
TwoPairsToDeregister ==
    \E a, b \in Requests :
        /\ KeyOf(a) # KeyOf(b)
        /\ Count(NODES, a) >= 1
        /\ Count(NODES, b) >= 1
        /\ ~locked

====
